---- MODULE Spec2Model ----
(***************************************************************************)
(* HyperSpace, hyperspace/space/mapping_space.py: check_dimension,         *)
(* fold_spaces and create_hyperspace as a state machine.                   *)
(*                                                                         *)
(* A behaviour is one call of one of the three functions.  Init draws the  *)
(* function and its arguments; the actions are the steps of the call.      *)
(* Python values are records: an element of a descriptor is [t, v] (its    *)
(* type and its literal), a raw descriptor is [cls, items], a skopt        *)
(* Dimension object is [cls, items, prior, transform, half].               *)
(***************************************************************************)
EXTENDS Integers, Sequences, FiniteSets, TLC

VARIABLES
    call,             \* the function called: check_dimension, fold_spaces, create_hyperspace
    pc,               \* position in the call
    dimension,        \* check_dimension: argument `dimension`
    transform,        \* check_dimension: argument `transform`
    hyperparameters,  \* create_hyperspace: argument `hyperparameters`
    hparams_low,      \* create_hyperspace: local list
    hparams_high,     \* create_hyperspace: local list
    normalized,       \* history: positions of the descriptors handed to check_dimension
    low_spaces,       \* fold_spaces: argument
    high_spaces,      \* fold_spaces: argument
    hyperspace,       \* fold_spaces: local list of lists
    picked,           \* history: the branch (line 152 "low", line 154 "high") that filled each slot
    space,            \* fold_spaces: outer loop variable
    index,            \* fold_spaces: inner loop variable
    result            \* what the call returned or raised

vars == <<call, pc, dimension, transform, hyperparameters, hparams_low, hparams_high,
          normalized, low_spaces, high_spaces, hyperspace, picked, space, index, result>>

----------------------------------------------------------------------------
(* Bounds *)

\* longest hyperparameter list / low and high list
MaxN == 3
\* longest raw descriptor handed to a direct check_dimension call
MaxLen == 4

----------------------------------------------------------------------------
(* Python values *)

Elem(t, v) == [t |-> t, v |-> v]

\* one element of each Python type the isinstance tests tell apart
Elems ==
    { Elem("int", "1"), Elem("float", "0.01"), Elem("bool", "True"),
      Elem("str", "a"), Elem("str", "uniform"), Elem("str", "log-uniform"),
      Elem("NoneType", "None") }

Raw(cls, items) == [cls |-> cls, items |-> items]

DimObj(cls, items, prior, tf, half) ==
    [cls |-> cls, items |-> items, prior |-> prior, transform |-> tf, half |-> half]

DimensionClasses == {"Integer", "Real", "Categorical"}
SequenceClasses == {"list", "tuple", "ndarray"}

\* isinstance(dimension, Dimension)
IsDimension(dim) == dim.cls \in DimensionClasses
\* isinstance(dimension, (list, tuple, np.ndarray))
IsSequence(dim) == dim.cls \in SequenceClasses
\* isinstance(d, (str, bool))
IsStrOrBool(e) == e.t \in {"str", "bool"}
\* isinstance(dim, numbers.Integral): bool is a subclass of int
IsIntegral(e) == e.t \in {"int", "bool"}
\* isinstance(dim, numbers.Real): Integral is a subclass of Real
IsReal(e) == e.t \in {"int", "bool", "float"}
\* isinstance(dim, (float, int))
IsFloatOrInt(e) == e.t \in {"float", "int", "bool"}
\* dimension[2] in ["uniform", "log-uniform"]
IsPrior(e) == e.t = "str" /\ e.v \in {"uniform", "log-uniform"}

Return(type, value) == [outcome |-> "return", type |-> type, value |-> value]
\* a raised exception: its class, its message template, and what was formatted
\* into the message (the descriptor, the position in the hyperparameter list)
Raise(exc, msg, descriptor, position) ==
    [outcome |-> "raise", type |-> exc,
     value |-> [msg |-> msg, descriptor |-> descriptor, position |-> position]]
Pending == [outcome |-> "pending", type |-> "NoneType", value |-> <<>>]

----------------------------------------------------------------------------
(* hyperspace/space/space.py: HyperInteger, HyperReal, HyperCategorical *)

\* Hyper*(...).get_hyperspace(): the (low, high) pair of one dimension
get_hyperspace(cls, items, prior, tf) ==
    Return("tuple", << DimObj(cls, items, prior, tf, "low"),
                       DimObj(cls, items, prior, tf, "high") >>)

HyperCategorical(dim, tf) == get_hyperspace("Categorical", dim.items, "None", tf)
HyperInteger(dim, tf) == get_hyperspace("Integer", dim.items, "uniform", tf)
HyperReal(dim, tf) ==
    get_hyperspace("Real", SubSeq(dim.items, 1, 2),
                   IF Len(dim.items) >= 3 THEN dim.items[3].v ELSE "uniform", tf)

----------------------------------------------------------------------------
(* check_dimension *)

\* the message without the .format(dimension)
InvalidDimension_unformatted(dim) ==
    Raise("ValueError", "Invalid dimension {}. Read the documentation for supported types.",
          <<>>, <<>>)

InvalidDimension(dim) ==
    Raise("ValueError", "Invalid dimension {}. Read the documentation for supported types.",
          <<dim>>, <<>>)

\* the Integral test taken before the (str, bool) test
check_dimension_len2_integral_first(dim, tf) ==
    IF \A k \in 1..2 : IsIntegral(dim.items[k]) THEN HyperInteger(dim, tf)
    ELSE IF \E k \in 1..2 : IsStrOrBool(dim.items[k]) THEN HyperCategorical(dim, tf)
    ELSE IF \E k \in 1..2 : IsReal(dim.items[k]) THEN HyperReal(dim, tf)
    ELSE InvalidDimension(dim)

\* lines 91-103
check_dimension_len2(dim, tf) ==
    IF \E k \in 1..2 : IsStrOrBool(dim.items[k]) THEN HyperCategorical(dim, tf)
    ELSE IF \A k \in 1..2 : IsIntegral(dim.items[k]) THEN HyperInteger(dim, tf)
    ELSE IF \E k \in 1..2 : IsReal(dim.items[k]) THEN HyperReal(dim, tf)
    ELSE InvalidDimension(dim)

\* lines 105-112
check_dimension_len3(dim, tf) ==
    IF (\E k \in 1..2 : IsFloatOrInt(dim.items[k])) /\ IsPrior(dim.items[3])
    THEN HyperReal(dim, tf)
    ELSE HyperCategorical(dim, tf)

\* the list-or-tuple test taken before the Dimension test
check_dimension_sequence_first(dim, tf) ==
    IF ~IsSequence(dim)
    THEN Raise("ValueError", "Dimension has to be a list or tuple.", <<>>, <<>>)
    ELSE IF IsDimension(dim) THEN Return(dim.cls, dim)
    ELSE IF Len(dim.items) = 2 THEN check_dimension_len2(dim, tf)
    ELSE IF Len(dim.items) = 3 THEN check_dimension_len3(dim, tf)
    ELSE IF Len(dim.items) > 3 THEN HyperCategorical(dim, tf)
    ELSE InvalidDimension(dim)

\* lines 85-119
check_dimension(dim, tf) ==
    IF IsDimension(dim) THEN Return(dim.cls, dim)
    ELSE IF ~IsSequence(dim)
    THEN Raise("ValueError", "Dimension has to be a list or tuple.", <<>>, <<>>)
    ELSE IF Len(dim.items) = 2 THEN check_dimension_len2(dim, tf)
    ELSE IF Len(dim.items) = 3 THEN check_dimension_len3(dim, tf)
    ELSE IF Len(dim.items) > 3 THEN HyperCategorical(dim, tf)
    ELSE InvalidDimension(dim)

----------------------------------------------------------------------------
(* fold_spaces *)

RECURSIVE Pow2(_)
\* 2**indices, 1 << index
Pow2(n) == IF n = 0 THEN 1 ELSE 2 * Pow2(n - 1)

RECURSIVE BitAnd(_, _)
\* a & b on non-negative integers
BitAnd(a, b) ==
    IF a = 0 \/ b = 0 THEN 0
    ELSE (a % 2) * (b % 2) + 2 * BitAnd(a \div 2, b \div 2)

\* the shift off by one: 1 << (index + 1)
bit_tester_shifted(idx) == Pow2(idx + 1)

\* bit_tester = 1 << index
bit_tester(idx) == Pow2(idx)

\* the two branches swapped: a set bit takes the high half
TakesLow_swapped(sp, idx) == BitAnd(sp, bit_tester(idx)) = 0

\* if space & bit_tester: (a non-zero integer is true)
TakesLow(sp, idx) == BitAnd(sp, bit_tester(idx)) # 0

\* insert(0, x): every element goes to the front
ListInsert_front(list, i, x) == <<x>> \o list

\* list.insert(i, x) for i >= 0: x goes before position i, or at the end
ListInsert(list, i, x) ==
    LET at == IF i > Len(list) THEN Len(list) ELSE i
    IN  SubSeq(list, 1, at) \o <<x>> \o SubSeq(list, at + 1, Len(list))

\* only a longer low_spaces is caught
LengthsDiffer_one_sided(lows, highs) == Len(lows) > Len(highs)

\* len(low_spaces) != len(high_spaces)
LengthsDiffer(lows, highs) == Len(lows) # Len(highs)

LengthMismatch ==
    Raise("ValueError", "low_spaces and high_spaces must have the same length.", <<>>, <<>>)

\* lines 140-146: the length test, then the list of empty lists
FoldEnter ==
    /\ pc = "fold"
    /\ IF LengthsDiffer(low_spaces, high_spaces)
       THEN /\ result' = LengthMismatch
            /\ pc' = "done"
            /\ UNCHANGED <<hyperspace, picked, space, index>>
       ELSE /\ hyperspace' = [k \in 1..Pow2(Len(low_spaces)) |-> <<>>]
            /\ picked' = [k \in 1..Pow2(Len(low_spaces)) |-> <<>>]
            /\ space' = 0
            /\ index' = 0
            /\ pc' = "fold_loop"
            /\ UNCHANGED result
    /\ UNCHANGED <<call, dimension, transform, hyperparameters, hparams_low, hparams_high,
                   normalized, low_spaces, high_spaces>>

\* lines 149-154: one pass of the inner loop (Python indexes from 0, TLA+ from 1)
FoldInsert ==
    /\ pc = "fold_loop"
    /\ space < Pow2(Len(low_spaces))
    /\ index < Len(low_spaces)
    /\ IF TakesLow(space, index)
       THEN /\ hyperspace' = [hyperspace EXCEPT ![space + 1] =
                                 ListInsert(@, index, low_spaces[index + 1])]
            /\ picked' = [picked EXCEPT ![space + 1] = ListInsert(@, index, "low")]
       ELSE /\ hyperspace' = [hyperspace EXCEPT ![space + 1] =
                                 ListInsert(@, index, high_spaces[index + 1])]
            /\ picked' = [picked EXCEPT ![space + 1] = ListInsert(@, index, "high")]
    /\ index' = index + 1
    /\ UNCHANGED <<call, pc, dimension, transform, hyperparameters, hparams_low, hparams_high,
                   normalized, low_spaces, high_spaces, space, result>>

\* line 148: the inner loop is over, the outer loop takes the next space
FoldNextSpace ==
    /\ pc = "fold_loop"
    /\ space < Pow2(Len(low_spaces))
    /\ index = Len(low_spaces)
    /\ space' = space + 1
    /\ index' = 0
    /\ UNCHANGED <<call, pc, dimension, transform, hyperparameters, hparams_low, hparams_high,
                   normalized, low_spaces, high_spaces, hyperspace, picked, result>>

\* line 156: return hyperspace, to the caller or into create_hyperspace's all_spaces
FoldReturn ==
    /\ pc = "fold_loop"
    /\ space = Pow2(Len(low_spaces))
    /\ IF call = "fold_spaces"
       THEN /\ result' = Return("list", hyperspace)
            /\ pc' = "done"
       ELSE /\ pc' = "wrap"
            /\ UNCHANGED result
    /\ UNCHANGED <<call, dimension, transform, hyperparameters, hparams_low, hparams_high,
                   normalized, low_spaces, high_spaces, hyperspace, picked, space, index>>

----------------------------------------------------------------------------
(* create_hyperspace *)

\* low, high = check_dimension(hparam): a 2-tuple unpacks, a Dimension object is
\* not iterable
Unpack2(r) ==
    IF r.outcome = "raise" THEN r
    ELSE IF r.type \in SequenceClasses /\ Len(r.value) = 2 THEN r
    ELSE Raise("TypeError", "cannot unpack non-iterable object", <<>>, <<>>)

\* Space(space): skopt's wrapper of a list of dimensions
Space(dims) == [cls |-> "Space", dimensions |-> dims]

\* lines 175-178: one pass of the loop over hyperparameters
CreateLoop ==
    /\ pc = "create_loop"
    /\ Len(hparams_low) < Len(hyperparameters)
    /\ LET pos == Len(hparams_low) + 1
           r == Unpack2(check_dimension(hyperparameters[pos], "None"))
       IN  /\ normalized' = Append(normalized, pos)
           /\ IF r.outcome = "raise"
              THEN /\ result' = r
                   /\ pc' = "done"
                   /\ UNCHANGED <<hparams_low, hparams_high>>
              ELSE /\ hparams_low' = Append(hparams_low, r.value[1])
                   /\ hparams_high' = Append(hparams_high, r.value[2])
                   /\ UNCHANGED <<pc, result>>
    /\ UNCHANGED <<call, dimension, transform, hyperparameters, low_spaces, high_spaces,
                   hyperspace, picked, space, index>>

\* line 180: all_spaces = fold_spaces(hparams_low, hparams_high)
CreateFold ==
    /\ pc = "create_loop"
    /\ Len(hparams_low) = Len(hyperparameters)
    /\ low_spaces' = hparams_low
    /\ high_spaces' = hparams_high
    /\ pc' = "fold"
    /\ UNCHANGED <<call, dimension, transform, hyperparameters, hparams_low, hparams_high,
                   normalized, hyperspace, picked, space, index, result>>

\* lines 182-186: wrap every list of all_spaces in a Space, in order
WrapSpaces(all_spaces) == [k \in 1..Len(all_spaces) |-> Space(all_spaces[k])]

CreateWrap ==
    /\ pc = "wrap"
    /\ result' = Return("list", WrapSpaces(hyperspace))
    /\ pc' = "done"
    /\ UNCHANGED <<call, dimension, transform, hyperparameters, hparams_low, hparams_high,
                   normalized, low_spaces, high_spaces, hyperspace, picked, space, index>>

----------------------------------------------------------------------------
(* A direct call of check_dimension *)

CheckDimension ==
    /\ pc = "check"
    /\ result' = check_dimension(dimension, transform)
    /\ pc' = "done"
    /\ UNCHANGED <<call, dimension, transform, hyperparameters, hparams_low, hparams_high,
                   normalized, low_spaces, high_spaces, hyperspace, picked, space, index>>

----------------------------------------------------------------------------
(* Arguments *)

SeqsUpTo(S, n) == UNION { [1..k -> S] : k \in 0..n }

\* (1, 10) and (0.01, 1.0, "log-uniform")
IntegerDescriptor == Raw("tuple", <<Elem("int", "1"), Elem("int", "10")>>)
LogRealDescriptor ==
    Raw("tuple", <<Elem("float", "0.01"), Elem("float", "1.0"), Elem("str", "log-uniform")>>)
\* Real(0.01, 1.0), Integer(1, 10): skopt Dimension objects
RealDimension ==
    DimObj("Real", <<Elem("float", "0.01"), Elem("float", "1.0")>>, "uniform", "None", "full")
IntegerDimension ==
    DimObj("Integer", <<Elem("int", "1"), Elem("int", "10")>>, "uniform", "None", "full")

\* the hyperparameters create_hyperspace is called with
Descriptors ==
    { IntegerDescriptor, LogRealDescriptor,
      Raw("list", <<Elem("str", "a"), Elem("str", "b"), Elem("str", "c"), Elem("str", "d")>>),
      RealDimension,
      Raw("tuple", <<Elem("NoneType", "None"), Elem("NoneType", "None")>>),
      Raw("tuple", <<Elem("int", "1")>>),
      Raw("int", <<>>) }

\* the dimensions a direct check_dimension call is given
CheckArguments ==
    { Raw(cls, items) : cls \in {"tuple", "list"}, items \in SeqsUpTo(Elems, MaxLen) }
      \cup { Raw("int", <<>>), Raw("str", <<>>), RealDimension, IntegerDimension }

Transforms == {"None", "identity", "normalize", "onehot"}

\* the objects in the lists a direct fold_spaces call is given
FoldObjects == { [RealDimension EXCEPT !.half = "low"], [RealDimension EXCEPT !.half = "high"] }

Init ==
    /\ call \in {"check_dimension", "fold_spaces", "create_hyperspace"}
    /\ pc = CASE call = "check_dimension" -> "check"
              [] call = "fold_spaces" -> "fold"
              [] call = "create_hyperspace" -> "create_loop"
    /\ IF call = "check_dimension"
       THEN dimension \in CheckArguments /\ transform \in Transforms
       ELSE dimension = Raw("NoneType", <<>>) /\ transform = "None"
    /\ IF call = "create_hyperspace"
       THEN hyperparameters \in SeqsUpTo(Descriptors, MaxN)
       ELSE hyperparameters = <<>>
    /\ IF call = "fold_spaces"
       THEN low_spaces \in SeqsUpTo(FoldObjects, MaxN) /\ high_spaces \in SeqsUpTo(FoldObjects, MaxN)
       ELSE low_spaces = <<>> /\ high_spaces = <<>>
    /\ hparams_low = <<>>
    /\ hparams_high = <<>>
    /\ normalized = <<>>
    /\ hyperspace = <<>>
    /\ picked = <<>>
    /\ space = 0
    /\ index = 0
    /\ result = Pending

Next ==
    \/ CheckDimension
    \/ FoldEnter
    \/ FoldInsert
    \/ FoldNextSpace
    \/ FoldReturn
    \/ CreateLoop
    \/ CreateFold
    \/ CreateWrap

Spec == Init /\ [][Next]_vars

----------------------------------------------------------------------------
(* Properties *)

\* bit i (0-based) of combo is 1
BitIsSet(combo, i) == (combo \div Pow2(i)) % 2 = 1

FoldReturned == call = "fold_spaces" /\ pc = "done" /\ result.outcome = "return"
CreateDone == call = "create_hyperspace" /\ pc = "done"
CheckDone == call = "check_dimension" /\ pc = "done"

\* C1: in the collection fold_spaces returns, the SubSpace at index combo holds, at
\* every position i, lows[i] when bit i of combo is 1 and highs[i] when it is 0 (and
\* the branch that filled the slot is the low one exactly when the bit is 1).
C1_FoldBitRule ==
    FoldReturned =>
        \A combo \in 0..(Pow2(Len(low_spaces)) - 1) : \A i \in 0..(Len(low_spaces) - 1) :
            /\ result.value[combo + 1][i + 1] =
                   IF BitIsSet(combo, i) THEN low_spaces[i + 1] ELSE high_spaces[i + 1]
            /\ (picked[combo + 1][i + 1] = "low") <=> BitIsSet(combo, i)

\* fold_spaces returned for N = 3 with lows and highs that differ in every position,
\* and index 5 (binary 101) holds (low, high, low)
C1_Witness ==
    /\ FoldReturned
    /\ Len(low_spaces) = 3
    /\ \A i \in 1..3 : low_spaces[i] # high_spaces[i]
    /\ result.value[6] = <<low_spaces[1], high_spaces[2], low_spaces[3]>>

\* C2: fold_spaces returns exactly 2^N SubSpaces, each of length N; every way of
\* picking low or high per position is the choice pattern of exactly one index; and
\* when the two halves differ in every position the returned SubSpaces are pairwise
\* different.
C2_FoldCoversAllPatterns ==
    FoldReturned =>
        LET n == Len(low_spaces)
            hs == result.value
        IN  /\ Len(hs) = Pow2(n)
            /\ \A k \in 1..Len(hs) : Len(hs[k]) = n /\ Len(picked[k]) = n
            /\ \A k \in 1..Len(hs) : \A i \in 1..n :
                   hs[k][i] = IF picked[k][i] = "low" THEN low_spaces[i] ELSE high_spaces[i]
            /\ \A p \in [1..n -> {"low", "high"}] :
                   Cardinality({k \in 1..Len(hs) : picked[k] = p}) = 1
            /\ (\A i \in 1..n : low_spaces[i] # high_spaces[i]) =>
                   \A j, k \in 1..Len(hs) : j # k => hs[j] # hs[k]

\* fold_spaces returned 8 SubSpaces for N = 3
C2_Witness ==
    /\ FoldReturned
    /\ Len(low_spaces) = 3
    /\ Len(result.value) = 8
    /\ \A i \in 1..3 : low_spaces[i] # high_spaces[i]

IsHalfOfInteger(d, half) ==
    d = DimObj("Integer", IntegerDescriptor.items, "uniform", "None", half)
IsHalfOfLogReal(d, half) ==
    d = DimObj("Real", SubSeq(LogRealDescriptor.items, 1, 2), "log-uniform", "None", half)

EndToEndDone == CreateDone /\ hyperparameters = <<IntegerDescriptor, LogRealDescriptor>>

EndToEndShape ==
    /\ result.outcome = "return"
    /\ Len(result.value) = 4
    /\ \A k \in 1..4 : Len(result.value[k].dimensions) = 2

\* C3 as stated: on [(1, 10), (0.01, 1.0, "log-uniform")] create_hyperspace returns 4
\* SubSpaces of 2 elements, SubSpace[0] is (low, low) and SubSpace[3] is (high, high).
C3_Original ==
    EndToEndDone =>
        /\ EndToEndShape
        /\ IsHalfOfInteger(result.value[1].dimensions[1], "low")
        /\ IsHalfOfLogReal(result.value[1].dimensions[2], "low")
        /\ IsHalfOfInteger(result.value[4].dimensions[1], "high")
        /\ IsHalfOfLogReal(result.value[4].dimensions[2], "high")

\* C3 amended: on [(1, 10), (0.01, 1.0, "log-uniform")] create_hyperspace returns 4
\* SubSpaces of 2 elements, SubSpace[0] is (high, high) and SubSpace[3] is (low, low).
C3_EndToEnd ==
    EndToEndDone =>
        /\ EndToEndShape
        /\ IsHalfOfInteger(result.value[1].dimensions[1], "high")
        /\ IsHalfOfLogReal(result.value[1].dimensions[2], "high")
        /\ IsHalfOfInteger(result.value[4].dimensions[1], "low")
        /\ IsHalfOfLogReal(result.value[4].dimensions[2], "low")

\* create_hyperspace returned on the two descriptors of the scenario
C3_Witness == EndToEndDone /\ result.outcome = "return" /\ Len(result.value) = 4

\* the (low, high) pair of a dimension of class cls over items with the given prior
IsPairOf(r, cls, items, prior) ==
    /\ r.outcome = "return"
    /\ r.type = "tuple"
    /\ Len(r.value) = 2
    /\ \A h \in 1..2 :
          /\ r.value[h].cls = cls
          /\ r.value[h].items = items
          /\ r.value[h].prior = prior
          /\ r.value[h].transform = transform
    /\ r.value[1].half = "low"
    /\ r.value[2].half = "high"

\* C4: a length-3 descriptor is inferred REAL, with its third element as prior, exactly
\* when both of its first two elements are numeric and the third is "uniform" or
\* "log-uniform"; every other length-3 descriptor is CATEGORICAL over its three elements.
C4_Len3BothNumeric ==
    (CheckDone /\ IsSequence(dimension) /\ Len(dimension.items) = 3) =>
        LET it == dimension.items
        IN  IF IsFloatOrInt(it[1]) /\ IsFloatOrInt(it[2]) /\ IsPrior(it[3])
            THEN IsPairOf(result, "Real", SubSeq(it, 1, 2), it[3].v)
            ELSE IsPairOf(result, "Categorical", it, "None")

\* C5: a length-2 descriptor with a text or boolean element is CATEGORICAL; otherwise
\* one with two integers is INTEGER; otherwise one with an integer or float element
\* (a numbers.Real) is REAL; otherwise a ValueError naming the descriptor is raised.
C5_Len2Precedence ==
    (CheckDone /\ IsSequence(dimension) /\ Len(dimension.items) = 2) =>
        LET it == dimension.items
            text(e) == e.t \in {"str", "bool"}
            integer(e) == e.t = "int"
            real(e) == e.t \in {"int", "float"}
        IN  IF text(it[1]) \/ text(it[2]) THEN IsPairOf(result, "Categorical", it, "None")
            ELSE IF integer(it[1]) /\ integer(it[2]) THEN IsPairOf(result, "Integer", it, "uniform")
            ELSE IF real(it[1]) \/ real(it[2]) THEN IsPairOf(result, "Real", it, "uniform")
            ELSE /\ result.outcome = "raise"
                 /\ result.type = "ValueError"
                 /\ result.value.descriptor = <<dimension>>

\* check_dimension was called on (True, 1) and returned a CATEGORICAL pair
C5_Witness ==
    /\ CheckDone
    /\ IsSequence(dimension)
    /\ dimension.items = <<Elem("bool", "True"), Elem("int", "1")>>
    /\ result.outcome = "return"
    /\ result.value[1].cls = "Categorical"

\* create_hyperspace ended with the ValueError of check_dimension
CreateRejected == CreateDone /\ result.outcome = "raise" /\ result.type = "ValueError"

\* the loop of create_hyperspace stopped at the first descriptor check_dimension
\* rejects: every position up to it, and none after it, was normalized, the ones
\* before it were accepted, and fold_spaces was never entered
FailedFast ==
    LET pos == Len(normalized)
    IN  /\ pos >= 1
        /\ normalized = [k \in 1..pos |-> k]
        /\ \A k \in 1..(pos - 1) : check_dimension(hyperparameters[k], "None").outcome = "return"
        /\ check_dimension(hyperparameters[pos], "None") = result
        /\ Len(hparams_low) = pos - 1
        /\ Len(hparams_high) = pos - 1
        /\ hyperspace = <<>>
        /\ low_spaces = <<>>

\* C6 as stated: create_hyperspace fails fast on the first invalid descriptor and the
\* error names the position of that descriptor and the descriptor itself.
C6_Original ==
    CreateRejected =>
        /\ FailedFast
        /\ result.value.position = <<Len(normalized) - 1>>
        /\ result.value.descriptor = <<hyperparameters[Len(normalized)]>>

\* C6 amended: create_hyperspace fails fast on the first invalid descriptor; the error
\* is check_dimension's ValueError as raised: it never names the position, and it
\* names the descriptor exactly when the descriptor is a list, tuple or array.
C6_FailFast ==
    CreateRejected =>
        /\ FailedFast
        /\ result.value.position = <<>>
        /\ result.value.descriptor =
               IF IsSequence(hyperparameters[Len(normalized)])
               THEN <<hyperparameters[Len(normalized)]>>
               ELSE <<>>

\* create_hyperspace met (None, None) in second place of three and raised
C6_Witness ==
    /\ CreateRejected
    /\ Len(hyperparameters) = 3
    /\ Len(normalized) = 2
    /\ IsSequence(hyperparameters[2])
    /\ result.value.descriptor = <<hyperparameters[2]>>

\* C7: in every SubSpace create_hyperspace returns, position i holds the low or the
\* high half that check_dimension made of descriptor i, and the k-th returned Space
\* wraps the k-th list fold_spaces produced.
C7_OrderPreserved ==
    (CreateDone /\ result.outcome = "return") =>
        LET n == Len(hyperparameters)
        IN  /\ Len(result.value) = Pow2(n)
            /\ Len(hyperspace) = Pow2(n)
            /\ \A k \in 1..Len(result.value) :
                  /\ result.value[k] = Space(hyperspace[k])
                  /\ Len(result.value[k].dimensions) = n
                  /\ \A i \in 1..n :
                        LET pair == check_dimension(hyperparameters[i], "None").value
                        IN  result.value[k].dimensions[i] \in {pair[1], pair[2]}

\* create_hyperspace returned for three different descriptors
C7_Witness ==
    /\ CreateDone
    /\ result.outcome = "return"
    /\ Len(hyperparameters) = 3
    /\ \A i, j \in 1..3 : i # j => hyperparameters[i] # hyperparameters[j]
    /\ Len(result.value) = 8

\* C8: fold_spaces given lists of different lengths raises the length error and
\* builds nothing: its list of lists is never created and nothing is returned.
C8_LengthMismatchRaises ==
    (call = "fold_spaces" /\ Len(low_spaces) # Len(high_spaces)) =>
        /\ pc \in {"fold", "done"}
        /\ hyperspace = <<>>
        /\ result.outcome # "return"
        /\ pc = "done" => result = LengthMismatch

\* fold_spaces raised on 3 lows and 2 highs
C8_Witness ==
    /\ call = "fold_spaces"
    /\ pc = "done"
    /\ Len(low_spaces) = 3
    /\ Len(high_spaces) = 2
    /\ result.outcome = "raise"

\* C9: check_dimension given a Dimension object returns that object, whatever the
\* transform, and applying check_dimension to what it returned returns it again.
C9_DimensionPassThrough ==
    (CheckDone /\ IsDimension(dimension)) =>
        /\ result.outcome = "return"
        /\ result.value = dimension
        /\ \A tf \in Transforms : check_dimension(result.value, tf) = result

\* check_dimension returned the Real dimension it was given with transform "normalize"
C9_Witness ==
    /\ CheckDone
    /\ dimension = RealDimension
    /\ transform = "normalize"
    /\ result.value = RealDimension

\* C10: when check_dimension accepts every descriptor of the list, create_hyperspace
\* returns 2^N SubSpaces.
C10_AcceptedThenReturns ==
    (/\ CreateDone
     /\ \A i \in 1..Len(hyperparameters) :
            check_dimension(hyperparameters[i], "None").outcome = "return") =>
        /\ result.outcome = "return"
        /\ Len(result.value) = Pow2(Len(hyperparameters))

====
